---- MODULE Spec2Model ----
(***************************************************************************)
(* A model of appgallery_service.py: the two-call lookup get_app_info      *)
(* (interface code, then the tab-detail GET and the scan of layoutData),   *)
(* and the bulk mode of cli(), where a thread pool runs process_info for   *)
(* every identifier and each worker appends to results/summary.csv.        *)
(*                                                                         *)
(* Spec      one lookup get_app_info(app_id), step by step.                *)
(* SpecBulk  cli() in bulk mode: submit, workers, write_summary, join.     *)
(***************************************************************************)
EXTENDS Integers, Sequences, FiniteSets, TLC

VARIABLES
    \* ---- one lookup (get_app_info) ----
    pc,              \* idle, auth, get, scan, returned or raised
    app_id,          \* the argument of get_app_info
    calls,           \* the HTTP calls issued so far, with upstream's answer
    headers,         \* the local headers of get_app_info (NoneRec until built)
    data,            \* the local data: the parsed body of the detail response
    layout_data,     \* the local layout_data (the parsed layoutData list)
    idx,             \* position of the outer for loop over layout_data
    app_item,        \* the local app_item (NoneRec is Python's None)
    developer_name,  \* the local developer_name (None is Python's None)
    result,          \* the value returned to the caller (NoneRec: none)
    error,           \* the exception that reached the caller (NoneRec: none)
    log,             \* what the module logger was given, in order
    \* ---- bulk mode (cli) ----
    cpc,             \* position of cli(): idle, submit, collect, done
    command,         \* args.command: info or download
    max_workers,     \* args.threads, the size of the pool
    submitted,       \* how many of app_ids have been given to executor.submit
    pending,         \* the executor's work queue: task numbers not yet taken
    wpc,             \* each pool thread's position
    wtask,           \* the task a pool thread runs (0: none)
    wlocal,          \* a pool thread's locals in its task function
    upstream,        \* what upstream answered for each task
    runs,            \* how many times each task's function has been started
    finished,        \* the futures that are done
    outcome,         \* the status each task gave write_summary
    summary          \* results/summary.csv: does it exist, and its rows

lookupVars == <<pc, app_id, calls, headers, data, layout_data, idx, app_item,
                developer_name, result, error, log>>
bulkVars == <<cpc, command, max_workers, submitted, pending, wpc, wtask,
              wlocal, upstream, runs, finished, outcome, summary>>
vars == <<lookupVars, bulkVars>>

(***************************************************************************)
(* Python values.  A dict is a function on its keys; None for a string     *)
(* valued name is the string None, None for a dict valued name is NoneRec. *)
(* A JSON value that the code iterates is tagged: JArr(s) or JNull.        *)
(***************************************************************************)
None == "<None>"
NoneRec == [py_none |-> TRUE]

Get(d, k) == IF k \in DOMAIN d THEN d[k] ELSE None

SetKey(d, k, v) == [x \in (DOMAIN d) \cup {k} |-> IF x = k THEN v ELSE d[x]]

\* truth value of a dict valued name: None and {} are false
TruthyRec(d) == d # NoneRec /\ DOMAIN d # {}

\* truth value of a string valued name: None and "" are false
TruthyStr(s) == s # None /\ s # ""

JNull == [null |-> TRUE]
JArr(s) == [arr |-> s]
IsArr(v) == DOMAIN v = {"arr"}

GetOr(d, k, default) == IF k \in DOMAIN d THEN d[k] ELSE default

(***************************************************************************)
(* Bounds and inputs.                                                      *)
(***************************************************************************)
\* the longest layoutData list the upstream answers with
MaxElems == 3

\* the number of identifiers in the bulk file
NumIds == 3

\* the largest --threads value tried
MaxThreads == 2

AppIds == {"A", "B"}

DetailCardLayout == 49
TextListCardLayout == 59

Item(a, n) == [appid |-> a, name |-> n]
ItemWithDeveloper(a, n) == [appid |-> a, name |-> n, developer |-> "Own"]
Dev(t) == [name |-> "Developer", text |-> t]

\* dataList values of detailhiddencard elements
Cards49 ==
    { <<Item("A", "n1")>>,
      <<Item("B", "n1"), ItemWithDeveloper("A", "n2")>>,
      <<Item("A", "n2"), Item("A", "n1")>>,
      <<[name |-> "n1"]>> }

\* dataList values of textlistcard elements
Cards59 ==
    { <<[list |-> JArr(<<Dev("Acme")>>)]>>,
      <<[list |-> JArr(<<Dev("Beta"),
                         [name |-> "Website", text |-> "Acme"]>>)]>>,
      <<[list |-> JArr(<<Dev("Acme"), Dev("")>>)]>>,
      <<[title |-> "About"], [list |-> JArr(<<[name |-> "Developer"]>>)]>>,
      <<[list |-> JNull]>> }

\* an element of another layout, holding what the two layouts are scanned for
OtherCard ==
    <<[appid |-> "A", name |-> "n3", list |-> JArr(<<Dev("Gamma")>>)],
      [appid |-> "B", name |-> "n3"]>>

Elements ==
    { [layoutId |-> DetailCardLayout, dataList |-> c] : c \in Cards49 }
    \cup { [layoutId |-> TextListCardLayout, dataList |-> c] : c \in Cards59 }
    \cup { [layoutId |-> 77, dataList |-> OtherCard],
           [layoutId |-> DetailCardLayout] }

RECURSIVE SeqsUpTo(_, _)
SeqsUpTo(S, n) ==
    IF n = 0 THEN {<<>>}
    ELSE LET shorter == SeqsUpTo(S, n - 1)
         IN shorter \cup { Append(s, e) : s \in shorter, e \in S }

\* the parsed bodies the detail endpoint can answer with
Responses ==
    { [rtnCode |-> "0"] }
    \cup { [rtnCode |-> "0", layoutData |-> l] :
              l \in SeqsUpTo(Elements, MaxElems) }

AuthOutcomes == {"ok", "unreachable", "bad_status", "bad_body"}
DetailOutcomes == {"ok", "unreachable", "bad_status", "bad_body"}

(***************************************************************************)
(* get_interface_code, build_headers                                       *)
(***************************************************************************)
\* an exception: its class and the identifier its message holds (None: none)
Exc(type, id) == [type |-> type, app_id |-> id]

\* get_interface_code with resp.json() after the try: a body that does not
\* parse escapes as the JSON error
GetInterfaceCodeJsonEscapes(answer) ==
    IF answer = "ok"
    THEN [ret |-> "code", exc |-> NoneRec, log |-> <<>>]
    ELSE IF answer = "bad_body"
    THEN [ret |-> None, exc |-> Exc("JSONDecodeError", None), log |-> <<>>]
    ELSE [ret |-> None, exc |-> Exc("RuntimeError", None),
          log |-> <<<<"ERROR", "Failed to retrieve Interface-Code", None>>>>]

\* get_interface_code: the returned code, or the exception raised
GetInterfaceCode(answer) ==
    IF answer = "ok"
    THEN [ret |-> "code", exc |-> NoneRec, log |-> <<>>]
    ELSE [ret |-> None, exc |-> Exc("RuntimeError", None),
          log |-> <<<<"ERROR", "Failed to retrieve Interface-Code", None>>>>]

\* build_headers: the code joined to the timestamp digits
BuildHeaders(code) == [Interface_Code |-> <<code, "_", "timestamp">>]

(***************************************************************************)
(* get_app_info: the scan of layout_data                                   *)
(***************************************************************************)
\* the developer scan with a break after the first hit
RECURSIVE ScanDevsFirstWins(_, _)
ScanDevsFirstWins(devs, name) ==
    IF devs = <<>> THEN name
    ELSE ScanDevsFirstWins(Tail(devs),
                           IF Get(Head(devs), "name") = "Developer"
                              /\ name = None
                           THEN Get(Head(devs), "text")
                           ELSE name)

RECURSIVE ScanDevs(_, _)
ScanDevs(devs, name) ==
    IF devs = <<>> THEN name
    ELSE ScanDevs(Tail(devs),
                  IF Get(Head(devs), "name") = "Developer"
                  THEN Get(Head(devs), "text")
                  ELSE name)

\* the loop body without the layout_id == 49 test
ScanItemAnyLayout(layout_id, item, st, id) ==
    LET accepted ==
            IF ~TruthyRec(st.app_item) /\ Get(item, "appid") = id
            THEN item
            ELSE st.app_item
    IN  IF layout_id = TextListCardLayout /\ "list" \in DOMAIN item
        THEN IF IsArr(item.list)
             THEN [app_item |-> accepted,
                   developer_name |->
                       ScanDevs(item.list.arr, st.developer_name),
                   exc |-> NoneRec]
             ELSE [app_item |-> accepted,
                   developer_name |-> st.developer_name,
                   exc |-> Exc("TypeError", None)]
        ELSE [app_item |-> accepted,
              developer_name |-> st.developer_name,
              exc |-> NoneRec]

\* the loop body without the "not app_item" test
ScanItemLastWins(layout_id, item, st, id) ==
    LET accepted ==
            IF layout_id = DetailCardLayout /\ Get(item, "appid") = id
            THEN item
            ELSE st.app_item
    IN  IF layout_id = TextListCardLayout /\ "list" \in DOMAIN item
        THEN IF IsArr(item.list)
             THEN [app_item |-> accepted,
                   developer_name |->
                       ScanDevs(item.list.arr, st.developer_name),
                   exc |-> NoneRec]
             ELSE [app_item |-> accepted,
                   developer_name |-> st.developer_name,
                   exc |-> Exc("TypeError", None)]
        ELSE [app_item |-> accepted,
              developer_name |-> st.developer_name,
              exc |-> NoneRec]

\* the body of the inner for loop, for one item; st is the locals
ScanItem(layout_id, item, st, id) ==
    LET accepted ==
            IF layout_id = DetailCardLayout /\ ~TruthyRec(st.app_item)
               /\ Get(item, "appid") = id
            THEN item
            ELSE st.app_item
    IN  IF layout_id = TextListCardLayout /\ "list" \in DOMAIN item
        THEN IF IsArr(item.list)
             THEN [app_item |-> accepted,
                   developer_name |->
                       ScanDevs(item.list.arr, st.developer_name),
                   exc |-> NoneRec]
             ELSE [app_item |-> accepted,
                   developer_name |-> st.developer_name,
                   exc |-> Exc("TypeError", None)]
        ELSE [app_item |-> accepted,
              developer_name |-> st.developer_name,
              exc |-> NoneRec]

RECURSIVE ScanItems(_, _, _, _)
ScanItems(layout_id, items, st, id) ==
    IF items = <<>> \/ st.exc # NoneRec THEN st
    ELSE ScanItems(layout_id, Tail(items),
                   ScanItem(layout_id, Head(items), st, id), id)

\* the body of the outer for loop, for one element
ScanElement(element, st, id) ==
    ScanItems(element.layoutId, GetOr(element, "dataList", <<>>), st, id)

\* the end of get_app_info with a ValueError whose message leaves out app_id
ConcludeNoId(item, name, id) ==
    IF TruthyRec(item)
    THEN LET tagged == SetKey(item, "integration_type", "appgallery")
         IN [ret |-> IF TruthyStr(name) THEN SetKey(tagged, "developer", name)
                     ELSE tagged,
             exc |-> NoneRec]
    ELSE [ret |-> NoneRec, exc |-> Exc("ValueError", None)]

\* what follows the loops: the record returned, or the ValueError
Conclude(item, name, id) ==
    IF TruthyRec(item)
    THEN LET tagged == SetKey(item, "integration_type", "appgallery")
         IN [ret |-> IF TruthyStr(name) THEN SetKey(tagged, "developer", name)
                     ELSE tagged,
             exc |-> NoneRec]
    ELSE [ret |-> NoneRec, exc |-> Exc("ValueError", id)]

\* the exception requests raises for a failed detail call
DetailFailures(answer, id) ==
    CASE answer = "unreachable" ->
             { Exc("ConnectionError", c) : c \in {None, id} }
      [] answer = "bad_status" -> { Exc("HTTPError", id) }
      [] answer = "bad_body" -> { Exc("JSONDecodeError", None) }

\* the except clause of get_app_info: two error lines, then the bare raise
LogFailure(exc, id) ==
    << <<"ERROR", "Error fetching app info", exc.app_id>>,
       <<"ERROR", "App ID", id>> >>

(***************************************************************************)
(* get_app_info as one call, for the pool threads.                         *)
(***************************************************************************)
RECURSIVE ScanAll(_, _, _)
ScanAll(elements, st, id) ==
    IF elements = <<>> \/ st.exc # NoneRec THEN st
    ELSE ScanAll(Tail(elements), ScanElement(Head(elements), st, id), id)

\* the outcomes of get_app_info(id) when upstream answers up
GetAppInfo(id, up) ==
    LET h == GetInterfaceCode(up.auth)
        st == ScanAll(GetOr(up.data, "layoutData", <<>>),
                      [app_item |-> NoneRec, developer_name |-> None,
                       exc |-> NoneRec],
                      id)
    IN  IF h.exc # NoneRec THEN { [ret |-> NoneRec, exc |-> h.exc] }
        ELSE IF up.detail # "ok"
        THEN { [ret |-> NoneRec, exc |-> e] :
                  e \in DetailFailures(up.detail, id) }
        ELSE IF st.exc # NoneRec THEN { [ret |-> NoneRec, exc |-> st.exc] }
        ELSE { Conclude(st.app_item, st.developer_name, id) }

\* what upstream answers a pool thread's lookup of id with
Upstreams(id) ==
    { [auth |-> "bad_status", detail |-> "ok", data |-> [rtnCode |-> "0"]],
      [auth |-> "ok", detail |-> "ok", data |-> [rtnCode |-> "0"]],
      [auth |-> "ok", detail |-> "ok",
       data |-> [rtnCode |-> "0",
                 layoutData |->
                    <<[layoutId |-> DetailCardLayout,
                       dataList |-> <<Item(id, "n1")>>],
                      [layoutId |-> TextListCardLayout,
                       dataList |-> <<[list |-> JArr(<<Dev("Acme")>>)]>>]>>]] }

(***************************************************************************)
(* cli() in bulk mode.                                                     *)
(***************************************************************************)
Tasks == 1 .. NumIds
Threads == 1 .. MaxThreads

\* app_ids: the stripped non-empty lines of the bulk file
app_ids == [t \in Tasks |-> IF t % 2 = 1 THEN "A" ELSE "B"]

NoLocal ==
    [app_info |-> NoneRec, status |-> <<>>, file_exists |-> FALSE]

\* the column header of summary.csv; of the eleven columns the model keeps
\* the identifier, the two it reads from the record, and the status
HeaderRow == <<"App ID", "Name", "Developer", "Status">>

BulkInit ==
    /\ cpc = "idle"
    /\ command = None
    /\ max_workers = 0
    /\ submitted = 0
    /\ pending = <<>>
    /\ wpc = [w \in Threads |-> "idle"]
    /\ wtask = [w \in Threads |-> 0]
    /\ wlocal = [w \in Threads |-> NoLocal]
    /\ upstream = [t \in Tasks |-> NoneRec]
    /\ runs = [t \in Tasks |-> 0]
    /\ finished = {}
    /\ outcome = [t \in Tasks |-> <<>>]
    /\ summary = [exists |-> FALSE, rows |-> <<>>]


(***************************************************************************)
(* One lookup, step by step.                                               *)
(***************************************************************************)
Init ==
    /\ pc = "idle"
    /\ app_id = None
    /\ calls = <<>>
    /\ headers = NoneRec
    /\ data = NoneRec
    /\ layout_data = <<>>
    /\ idx = 0
    /\ app_item = NoneRec
    /\ developer_name = None
    /\ result = NoneRec
    /\ error = NoneRec
    /\ log = <<>>
    /\ BulkInit

\* get_app_info is called: line 44
Enter(a) ==
    /\ pc = "idle"
    /\ pc' = "auth"
    /\ app_id' = a
    /\ log' = Append(log, <<"INFO", "Fetching app info", a>>)
    /\ UNCHANGED <<calls, headers, data, layout_data, idx, app_item,
                   developer_name, result, error>>
    /\ UNCHANGED bulkVars

\* the header step with the failure swallowed: the lookup goes on to the GET
HeaderStepSwallow(answer) ==
    /\ pc = "auth"
    /\ calls' = Append(calls, [op |-> "POST", outcome |-> answer])
    /\ LET r == GetInterfaceCode(answer)
       IN  /\ log' = log \o r.log
           /\ headers' = IF r.exc = NoneRec THEN BuildHeaders(r.ret)
                         ELSE headers
           /\ pc' = "get"
           /\ error' = error
    /\ UNCHANGED <<app_id, data, layout_data, idx, app_item, developer_name,
                   result>>
    /\ UNCHANGED bulkVars

\* headers = build_headers(): the POST, outside the try of get_app_info
HeaderStep(answer) ==
    /\ pc = "auth"
    /\ calls' = Append(calls, [op |-> "POST", outcome |-> answer])
    /\ LET r == GetInterfaceCode(answer)
       IN  /\ log' = log \o r.log
           /\ IF r.exc = NoneRec
              THEN /\ headers' = BuildHeaders(r.ret)
                   /\ pc' = "get"
                   /\ error' = error
              ELSE /\ headers' = headers
                   /\ pc' = "raised"
                   /\ error' = r.exc
    /\ UNCHANGED <<app_id, data, layout_data, idx, app_item, developer_name,
                   result>>
    /\ UNCHANGED bulkVars

\* requests.get, raise_for_status, resp.json(), data.get('layoutData', [])
DetailStep(answer) ==
    /\ pc = "get"
    /\ calls' = Append(calls, [op |-> "GET", outcome |-> answer])
    /\ IF answer = "ok"
       THEN \E d \in Responses :
               /\ data' = d
               /\ layout_data' = GetOr(d, "layoutData", <<>>)
               /\ idx' = 1
               /\ pc' = "scan"
               /\ UNCHANGED <<error, log>>
       ELSE \E e \in DetailFailures(answer, app_id) :
               /\ error' = e
               /\ log' = log \o LogFailure(e, app_id)
               /\ pc' = "raised"
               /\ UNCHANGED <<data, layout_data, idx>>
    /\ UNCHANGED <<app_id, headers, app_item, developer_name, result>>
    /\ UNCHANGED bulkVars

\* one round of the outer for loop
ScanStep ==
    /\ pc = "scan"
    /\ idx <= Len(layout_data)
    /\ LET st == ScanElement(layout_data[idx],
                             [app_item |-> app_item,
                              developer_name |-> developer_name,
                              exc |-> NoneRec],
                             app_id)
       IN  IF st.exc = NoneRec
           THEN /\ app_item' = st.app_item
                /\ developer_name' = st.developer_name
                /\ idx' = idx + 1
                /\ UNCHANGED <<pc, error, log>>
           ELSE /\ error' = st.exc
                /\ log' = log \o LogFailure(st.exc, app_id)
                /\ pc' = "raised"
                /\ UNCHANGED <<app_item, developer_name, idx>>
    /\ UNCHANGED <<app_id, calls, headers, data, layout_data, result>>
    /\ UNCHANGED bulkVars

\* after the loops: return app_item, or raise ValueError
ConcludeStep ==
    /\ pc = "scan"
    /\ idx > Len(layout_data)
    /\ LET r == Conclude(app_item, developer_name, app_id)
       IN  IF r.exc = NoneRec
           THEN /\ result' = r.ret
                /\ pc' = "returned"
                /\ UNCHANGED <<error, log>>
           ELSE /\ error' = r.exc
                /\ log' = log \o LogFailure(r.exc, app_id)
                /\ pc' = "raised"
                /\ UNCHANGED result
    /\ UNCHANGED <<app_id, calls, headers, data, layout_data, idx, app_item,
                   developer_name>>
    /\ UNCHANGED bulkVars

Next ==
    \/ \E a \in AppIds : Enter(a)
    \/ \E o \in AuthOutcomes : HeaderStep(o)
    \/ \E o \in DetailOutcomes : DetailStep(o)
    \/ ScanStep
    \/ ConcludeStep

Spec == Init /\ [][Next]_vars

(***************************************************************************)
(* cli() in bulk mode: the steps.                                          *)
(***************************************************************************)
\* args.bulk is set and the file exists: the pool is created
CliBulk(cmd, threads) ==
    /\ cpc = "idle"
    /\ pc = "idle"
    /\ cpc' = "submit"
    /\ command' = cmd
    /\ max_workers' = threads
    /\ UNCHANGED <<submitted, pending, wpc, wtask, wlocal, upstream, runs,
                   finished, outcome, summary>>
    /\ UNCHANGED lookupVars

\* executor.submit(task_func, app_id), once per element of app_ids
Submit ==
    /\ cpc = "submit"
    /\ submitted < NumIds
    /\ submitted' = submitted + 1
    /\ pending' = Append(pending, submitted + 1)
    /\ cpc' = IF submitted + 1 = NumIds THEN "collect" ELSE "submit"
    /\ UNCHANGED <<command, max_workers, wpc, wtask, wlocal, upstream, runs,
                   finished, outcome, summary>>
    /\ UNCHANGED lookupVars

\* the work queue after a pool thread has taken its head
Dequeue(q) == Tail(q)

\* a pool thread takes the next work item
Take(w) ==
    /\ w <= max_workers
    /\ wpc[w] = "idle"
    /\ pending # <<>>
    /\ wtask' = [wtask EXCEPT ![w] = Head(pending)]
    /\ runs' = [runs EXCEPT ![Head(pending)] = @ + 1]
    /\ pending' = Dequeue(pending)
    /\ wpc' = [wpc EXCEPT ![w] = "run"]
    /\ UNCHANGED <<cpc, command, max_workers, submitted, wlocal, upstream,
                   finished, outcome, summary>>
    /\ UNCHANGED lookupVars

\* what the task function passes to write_summary for the outcome r of
\* get_app_info: the record and "<cmd>_success", or {} and "<cmd>_failed: <e>"
SummaryArgs(cmd, r) ==
    IF r.exc = NoneRec
    THEN [app_info |-> r.ret, status |-> <<cmd, "success">>]
    ELSE [app_info |-> <<>>, status |-> <<cmd, "failed", r.exc.type>>]

\* process_info or process_download, up to its call of write_summary
RunLookup(w) ==
    /\ wpc[w] = "run"
    /\ \E up \in Upstreams(app_ids[wtask[w]]) :
         \E r \in GetAppInfo(app_ids[wtask[w]], up) :
            /\ upstream' = [upstream EXCEPT ![wtask[w]] = up]
            /\ wlocal' = [wlocal EXCEPT ![w] =
                             [app_info |-> SummaryArgs(command, r).app_info,
                              status |-> SummaryArgs(command, r).status,
                              file_exists |-> FALSE]]
            /\ outcome' = [outcome EXCEPT
                            ![wtask[w]] = SummaryArgs(command, r).status]
    /\ wpc' = [wpc EXCEPT ![w] = "ws_check"]
    /\ UNCHANGED <<cpc, command, max_workers, submitted, pending, wtask,
                   runs, finished, summary>>
    /\ UNCHANGED lookupVars

\* write_summary: file_exists = os.path.isfile(index_file)
WsCheck(w) ==
    /\ wpc[w] = "ws_check"
    /\ wlocal' = [wlocal EXCEPT ![w].file_exists = summary.exists]
    /\ wpc' = [wpc EXCEPT ![w] = "ws_open"]
    /\ UNCHANGED <<cpc, command, max_workers, submitted, pending, wtask,
                   upstream, runs, finished, outcome, summary>>
    /\ UNCHANGED lookupVars

\* write_summary: open(index_file, mode='a') creates a missing file
WsOpen(w) ==
    /\ wpc[w] = "ws_open"
    /\ summary' = [summary EXCEPT !.exists = TRUE]
    /\ wpc' = [wpc EXCEPT ![w] = "ws_write"]
    /\ UNCHANGED <<cpc, command, max_workers, submitted, pending, wtask,
                   wlocal, upstream, runs, finished, outcome>>
    /\ UNCHANGED lookupVars

\* "x or 'N/A'" on a value read with dict.get
OrNA(s) == IF TruthyStr(s) THEN s ELSE "N/A"

\* the rows one call of write_summary hands to its csv writer
SummaryRows(id, l) ==
    (IF ~l.file_exists THEN <<HeaderRow>> ELSE <<>>)
    \o << <<id, OrNA(Get(l.app_info, "name")),
            OrNA(Get(l.app_info, "developer")), l.status>> >>

\* write_summary: the rows are written and the file closed; the task is done
WsWrite(w) ==
    /\ wpc[w] = "ws_write"
    /\ summary' = [summary EXCEPT
                      !.rows = @ \o SummaryRows(app_ids[wtask[w]], wlocal[w])]
    /\ finished' = finished \cup {wtask[w]}
    /\ wpc' = [wpc EXCEPT ![w] = "idle"]
    /\ wtask' = [wtask EXCEPT ![w] = 0]
    /\ wlocal' = [wlocal EXCEPT ![w] = NoLocal]
    /\ UNCHANGED <<cpc, command, max_workers, submitted, pending, upstream,
                   runs, outcome>>
    /\ UNCHANGED lookupVars

\* a pool left as soon as one future is done
AnyDone == finished # {}

\* as_completed has yielded every future and the with block has joined the
\* pool
AllDone == finished = Tasks /\ \A w \in Threads : wpc[w] = "idle"

\* cli() leaves the with block
Proceed ==
    /\ cpc = "collect"
    /\ AllDone
    /\ cpc' = "done"
    /\ UNCHANGED <<command, max_workers, submitted, pending, wpc, wtask,
                   wlocal, upstream, runs, finished, outcome, summary>>
    /\ UNCHANGED lookupVars

NextBulk ==
    \/ \E cmd \in {"info", "download"}, n \in 1 .. MaxThreads :
          CliBulk(cmd, n)
    \/ Submit
    \/ \E w \in Threads : Take(w)
    \/ \E w \in Threads : RunLookup(w)
    \/ \E w \in Threads : WsCheck(w)
    \/ \E w \in Threads : WsOpen(w)
    \/ \E w \in Threads : WsWrite(w)
    \/ Proceed

SpecBulk == Init /\ [][NextBulk]_vars

(***************************************************************************)
(* What the scanned response holds, stated apart from the scan.            *)
(***************************************************************************)
\* the data items of the layoutId-49 elements of l, in scan order
RECURSIVE CardItems(_)
CardItems(l) ==
    IF l = <<>> THEN <<>>
    ELSE (IF Head(l).layoutId = 49 THEN GetOr(Head(l), "dataList", <<>>)
          ELSE <<>>)
         \o CardItems(Tail(l))

\* those of them whose appid is id
Matches(l, id) == SelectSeq(CardItems(l), LAMBDA it : Get(it, "appid") = id)

\* the nested lists of the data items of the layoutId-59 elements of l
RECURSIVE ListsOf(_)
ListsOf(items) ==
    IF items = <<>> THEN <<>>
    ELSE (IF "list" \in DOMAIN Head(items) /\ IsArr(Head(items).list)
          THEN Head(items).list.arr ELSE <<>>)
         \o ListsOf(Tail(items))

RECURSIVE DevEntries(_)
DevEntries(l) ==
    IF l = <<>> THEN <<>>
    ELSE (IF Head(l).layoutId = 59
          THEN SelectSeq(ListsOf(GetOr(Head(l), "dataList", <<>>)),
                         LAMBDA d : Get(d, "name") = "Developer")
          ELSE <<>>)
         \o DevEntries(Tail(l))

\* the text of the last Developer entry of l (None: no entry, or it has no text)
LastDevText(l) ==
    IF DevEntries(l) = <<>> THEN None
    ELSE Get(DevEntries(l)[Len(DevEntries(l))], "text")

\* the lookup has ended
Ended == pc \in {"returned", "raised"}

\* the calls of the lookup that were GETs
GetCalls == { i \in DOMAIN calls : calls[i].op = "GET" }

\* record r holds every field of item it, unchanged but for the two that
\* get_app_info sets
Carries(r, it) ==
    /\ DOMAIN it \subseteq DOMAIN r
    /\ DOMAIN r \subseteq DOMAIN it \cup {"integration_type", "developer"}
    /\ \A k \in DOMAIN it \ {"integration_type", "developer"} : r[k] = it[k]

\* the lookup in steps ends as get_app_info in one call does
LookupAgrees ==
    Ended =>
        [ret |-> result, exc |-> error]
            \in GetAppInfo(app_id,
                           [auth |-> calls[1].outcome,
                            detail |-> IF Len(calls) = 2 THEN calls[2].outcome
                                       ELSE "ok",
                            data |-> IF data = NoneRec THEN [rtnCode |-> "0"]
                                     ELSE data])

(***************************************************************************)
(* The claims.                                                             *)
(***************************************************************************)
\* C1: when the interface-code call fails, the lookup fails with the error of
\* the header step (RuntimeError in the code) and no GET is issued; a GET is
\* only ever the second call, after exactly one POST, which succeeded.
C1_HeaderFailureAbortsLookup ==
    /\ (calls # <<>> /\ calls[1].outcome # "ok")
          => (pc = "raised" /\ error.type = "RuntimeError" /\ GetCalls = {})
    /\ \A i \in GetCalls :
          /\ i = 2
          /\ calls[1] = [op |-> "POST", outcome |-> "ok"]

C1_Witness ==
    /\ pc = "raised"
    /\ calls = <<[op |-> "POST", outcome |-> "bad_status"]>>

\* C2: a parsed detail response without a layoutId-49 item whose appid is the
\* requested one ends the lookup with the not-found error that names app_id,
\* and with no record.
C2_NoMatchIsNotFound ==
    (Ended /\ data # NoneRec /\ Matches(layout_data, app_id) = <<>>)
        => (pc = "raised" /\ error = Exc("ValueError", app_id)
            /\ result = NoneRec)

\* C3: a lookup that has ended either failed or returned one record, never
\* both; a returned record is a layoutId-49 item whose appid is app_id, with
\* all its fields and integration_type = "appgallery".
C3_ReturnedRecordIsTaggedMatch ==
    /\ (pc = "returned") <=> (result # NoneRec)
    /\ Ended => ((result # NoneRec) <=> (error = NoneRec))
    /\ result # NoneRec =>
          /\ Get(result, "appid") = app_id
          /\ result.integration_type = "appgallery"
          /\ \E i \in DOMAIN Matches(layout_data, app_id) :
                Carries(result, Matches(layout_data, app_id)[i])

C3_Witness ==
    /\ pc = "returned"
    /\ Len(CardItems(layout_data)) > Len(Matches(layout_data, app_id))
    /\ \E i \in DOMAIN layout_data :
          /\ layout_data[i].layoutId # 49
          /\ \E j \in DOMAIN layout_data[i].dataList :
                Get(layout_data[i].dataList[j], "appid") = app_id

\* C4: the accepted item is the first layoutId-49 item in scan order whose
\* appid is app_id, at every point of the scan and in the returned record: a
\* later match never replaces it.
C4_FirstMatchWins ==
    /\ (pc \in {"scan", "returned"} /\ app_item # NoneRec)
          => app_item = Head(Matches(layout_data, app_id))
    /\ pc = "returned"
          => Carries(result, Head(Matches(layout_data, app_id)))

C4_Witness ==
    /\ pc = "returned"
    /\ Len(Matches(layout_data, app_id)) >= 2
    /\ \E i \in 2 .. Len(Matches(layout_data, app_id)) :
          Matches(layout_data, app_id)[i].name
              # Matches(layout_data, app_id)[1].name

\* C5 as stated: a returned record's developer is the text of the last
\* Developer entry of the layoutId-59 elements, and without such an entry the
\* developer is not taken from layout 59.
C5_DeveloperIsLastEntry ==
    pc = "returned" =>
        IF DevEntries(layout_data) # <<>>
        THEN Get(result, "developer") = LastDevText(layout_data)
        ELSE Get(result, "developer")
                 = Get(Head(Matches(layout_data, app_id)), "developer")

\* C5 amended: a returned record's developer is the text of the last Developer
\* entry of the layoutId-59 elements when that text is not empty; when there
\* is no such entry, or the last one's text is empty or missing, the record
\* keeps the developer field of the item itself, if it has one.
C5_DeveloperIsLastNonEmptyEntry ==
    pc = "returned" =>
        IF TruthyStr(LastDevText(layout_data))
        THEN Get(result, "developer") = LastDevText(layout_data)
        ELSE Get(result, "developer")
                 = Get(Head(Matches(layout_data, app_id)), "developer")

C5_Witness ==
    /\ pc = "returned"
    /\ Len(DevEntries(layout_data)) >= 2
    /\ TruthyStr(LastDevText(layout_data))
    /\ Get(DevEntries(layout_data)[1], "text") # LastDevText(layout_data)
    /\ layout_data[1].layoutId = 59
    /\ layout_data[Len(layout_data)].layoutId = 59
    /\ result.developer = LastDevText(layout_data)

\* C8 as stated: a body of the interface-code response that does not parse
\* fails the header step with another kind of error than a non-success status
\* does.
C8_ParseFailureIsAnotherKind ==
    (pc = "raised" /\ Len(calls) = 1 /\ calls[1].outcome = "bad_body")
        => error.type # GetInterfaceCode("bad_status").exc.type

\* C8 amended: the header step fails with one kind of error, RuntimeError,
\* whether the endpoint is unreachable, answers with a non-success status or
\* with a body that does not parse.
C8_HeaderFailureIsOneKind ==
    \A a \in AuthOutcomes \ {"ok"} :
        (Len(calls) = 1 /\ calls[1].outcome = a)
            => (pc = "raised" /\ error = Exc("RuntimeError", None))

C8_Witness ==
    /\ pc = "raised"
    /\ calls = <<[op |-> "POST", outcome |-> "bad_body"]>>
    /\ error.type = "RuntimeError"

\* C9 as stated: every failed lookup reaches the caller as an error that has
\* the requested app_id attached, and returns no record.
C9_FailureCarriesAppId ==
    pc = "raised" =>
        (error # NoneRec /\ error.app_id = app_id /\ result = NoneRec)

\* C9 amended: every failure reaches the caller as an error and none is
\* swallowed or turned into a record; the not-found error names app_id, the
\* error of the header step does not, and for a failure after the header step
\* get_app_info writes app_id to the error log.
C9_FailurePropagates ==
    /\ pc = "raised" => (error # NoneRec /\ result = NoneRec)
    /\ (\E i \in DOMAIN calls : calls[i].outcome # "ok") => pc = "raised"
    /\ (Ended /\ data # NoneRec /\ Matches(layout_data, app_id) = <<>>)
          => pc = "raised"
    /\ (pc = "raised" /\ error.type = "ValueError") => error.app_id = app_id
    /\ (pc = "raised" /\ error.type = "RuntimeError") => error.app_id = None
    /\ (pc = "raised" /\ error.type # "RuntimeError")
          => log[Len(log)] = <<"ERROR", "App ID", app_id>>

C9_Witness ==
    /\ pc = "raised"
    /\ error = Exc("ValueError", app_id)
    /\ layout_data # <<>>

\* C6: no task is run twice; the outcome of a task is the one its own answer
\* from upstream gives; cli() is past the pool only when every task has run
\* once and is done and every pool thread is idle.
C6_EachTaskOnceThenJoin ==
    /\ \A t \in Tasks : runs[t] <= 1
    /\ \A t \in Tasks :
          outcome[t] # <<>> =>
             outcome[t] \in { SummaryArgs(command, r).status :
                                 r \in GetAppInfo(app_ids[t], upstream[t]) }
    /\ cpc = "done" =>
          /\ \A t \in Tasks : runs[t] = 1 /\ t \in finished /\ outcome[t] # <<>>
          /\ pending = <<>>
          /\ \A w \in Threads : wpc[w] = "idle"

C6_Witness ==
    /\ cpc = "done"
    /\ max_workers >= 2
    /\ \E t, u \in Tasks : outcome[t][2] = "success" /\ outcome[u][2] = "failed"

\* C7: at most one pool thread is between the existence check of
\* write_summary and the end of its write.
C7_WritersSerialized ==
    Cardinality({ w \in Threads : wpc[w] \in {"ws_open", "ws_write"} }) <= 1

\* C10: when cli() is past the pool, summary.csv holds the column header once,
\* as its first row, and after it one status row for each task.
C10_HeaderOnceThenOneRowPerTask ==
    cpc = "done" =>
        /\ Len(summary.rows) = NumIds + 1
        /\ summary.rows[1] = HeaderRow
        /\ \A i \in 2 .. Len(summary.rows) : summary.rows[i] # HeaderRow
        /\ \A a \in AppIds :
              Cardinality({ i \in DOMAIN summary.rows :
                               summary.rows[i][1] = a })
                  = Cardinality({ t \in Tasks : app_ids[t] = a })

====
